---- MODULE Spec2Model ----
(***************************************************************************)
(* A model of scipy.sparse's _data_matrix / _minmax_mixin mixins (data.py) *)
(* and of the mostly_true_matrix complement wrapper (mtm.py).              *)
(*                                                                         *)
(* A sparse matrix is a record [format, dtype, shape, data]; `data` is a   *)
(* function from the explicitly stored positions to the stored values, so  *)
(* DOMAIN data is the sparsity pattern and nnz its cardinality.  Booleans  *)
(* are stored as 0/1 under dtype "bool".  Objects live in a heap of named  *)
(* cells so that two references to one matrix object are distinguishable   *)
(* from two equal matrices.                                                *)
(***************************************************************************)
EXTENDS Integers, FiniteSets, Sequences, TLC

\* heap:   the matrix objects, by cell ("s": the caller's data matrix, "w": a
\*         complement a wrapper created, "t": the matrix ~W returned)
\* W:      the cell of the wrapper's `negative`, or "none" before construction
\* T:      the cell of the matrix returned by ~W, or "none"
\* res:    the last operation, its arguments and what it returned
\* writes: the number of item assignments made so far
VARIABLES heap, W, T, res, writes

vars == <<heap, W, T, res, writes>>

(* ------------------------------ bounds -------------------------------- *)

\* rows and columns of a matrix range over 1..MaxDim
MaxDim == 2
\* at most MaxNnz explicitly stored entries per matrix
MaxNnz == 2
\* at most MaxWrites item assignments in a run of SpecAlias
MaxWrites == 2

(* --------------------------- value domains ---------------------------- *)

Formats == {"coo", "csc", "csr"}
DTypes == {"bool", "int8"}
\* values an int8 input matrix stores (0 is an explicitly stored zero)
IntVals == {-1, 0, 1}
BoolVals == {0, 1}
\* scalars a matrix is compared with
Scalars == {-1, 0, 1}
CmpOps == {"lt", "le", "eq", "ne", "gt", "ge"}
\* the axis arguments of sum; <<>> is "no argument" (axis=None)
Axes == {<<>>, <<0>>, <<1>>, <<-1>>, <<-2>>}

Shapes == (1..MaxDim) \X (1..MaxDim)
Positions(shape) == (0..(shape[1] - 1)) \X (0..(shape[2] - 1))
Patterns(shape) == {p \in SUBSET Positions(shape) : Cardinality(p) <= MaxNnz}
ValsOf(dtype) == IF dtype = "bool" THEN BoolVals ELSE IntVals

\* the data matrices a program may start from
Inputs ==
  UNION { UNION { { [format |-> f, dtype |-> t, shape |-> sh, data |-> d] :
                    d \in [pat -> ValsOf(t)], f \in Formats }
                  : pat \in Patterns(sh) }
          : <<sh, t>> \in Shapes \X DTypes }

NoMatrix == [format |-> "none", dtype |-> "none", shape |-> <<0, 0>>, data |-> <<>>]
Cells == {"s", "w", "t"}

(* ------------------------- numpy primitives --------------------------- *)

B2I(b) == IF b THEN 1 ELSE 0
Int8(x) == ((x + 128) % 256) - 128

\* ~x on a numpy value of the given dtype
NpInvert(dtype, x) == IF dtype = "bool" THEN 1 - x ELSE Int8(-x - 1)

\* x.astype(t)
NpCast(t, x) == IF t = "bool" THEN B2I(x # 0) ELSE Int8(x)

\* operator.__lt__ ... operator.__ge__
OpApply(op, x, y) ==
  CASE op = "lt" -> x < y
    [] op = "le" -> x <= y
    [] op = "eq" -> x = y
    [] op = "ne" -> x # y
    [] op = "gt" -> x > y
    [] op = "ge" -> x >= y

SetMax(S) == CHOOSE x \in S : \A y \in S : y <= x
SetMin(S) == CHOOSE x \in S : \A y \in S : x <= y

RECURSIVE SetSum(_, _)
SetSum(f, S) ==
  IF S = {} THEN 0
  ELSE LET p == CHOOSE q \in S : TRUE IN f[p] + SetSum(f, S \ {p})

(* --------------------------- result values ---------------------------- *)

NoVal == [kind |-> "none"]
Scalar(t, x) == [kind |-> "scalar", dtype |-> t, v |-> x]
Raise(e) == [kind |-> "raise", exc |-> e]
Mat(m) == [kind |-> "matrix", m |-> m]
\* a wrapper: r is what the constructor made of its argument
Mtm(r) == [kind |-> "mtm", negative |-> r.negative, same |-> r.same]
Arr(t, sh, d) == [kind |-> "array", dtype |-> t, shape |-> sh, data |-> d]

Res(op, name, arg, val) == [op |-> op, name |-> name, arg |-> arg, val |-> val]
NoRes == Res("none", "", <<>>, NoVal)

(* ------------------------ the sparse matrix --------------------------- *)

nnz(m) == Cardinality(DOMAIN m.data)
Prod(shape) == shape[1] * shape[2]

\* the element at a position: the stored value, or zero where nothing is stored
Elem(m, pos) == IF pos \in DOMAIN m.data THEN m.data[pos] ELSE 0

\* _with_data: same sparsity pattern, another data array
WithData(m, t, d) == [m EXCEPT !.dtype = t, !.data = d]

(* ------- the underlying sparse library (scipy.sparse.base, formats) --- *)

\* m.getrow(i): row i as a 1 x cols matrix
GetRow(m, i) ==
  [m EXCEPT !.shape = <<1, m.shape[2]>>,
            !.data = [p \in {<<0, q[2]>> : q \in {q \in DOMAIN m.data : q[1] = i}}
                        |-> m.data[<<i, p[2]>>]]]

\* m.getcol(j): column j as a rows x 1 matrix
GetCol(m, j) ==
  [m EXCEPT !.shape = <<m.shape[1], 1>>,
            !.data = [p \in {<<q[1], 0>> : q \in {q \in DOMAIN m.data : q[2] = j}}
                        |-> m.data[<<p[1], j>>]]]

\* m.transpose(): csr and csc swap, coo stays
Transpose(m) ==
  [m EXCEPT !.format = IF m.format = "csr" THEN "csc"
                       ELSE IF m.format = "csc" THEN "csr" ELSE m.format,
            !.shape = <<m.shape[2], m.shape[1]>>,
            !.data = [p \in {<<q[2], q[1]>> : q \in DOMAIN m.data}
                        |-> m.data[<<p[2], p[1]>>]]]

\* m.asformat(f), m.tocsr(), ...: the same elements in another format
Convert(m, f) == [m EXCEPT !.format = f]

\* m.toarray(): every element, stored or not
ToArray(m) == Arr(m.dtype, m.shape, [p \in Positions(m.shape) |-> Elem(m, p)])

\* m.diagonal()
Diagonal(m) ==
  LET k == IF m.shape[1] <= m.shape[2] THEN m.shape[1] ELSE m.shape[2]
  IN  Arr(m.dtype, <<1, k>>, [p \in Positions(<<1, k>>) |-> Elem(m, <<p[2], p[2]>>)])

\* the keys of m[key]: an element <<i, j>> or a row <<i>>
ElemKeys(m) == Positions(m.shape)
RowKeys(m) == {<<i>> : i \in 0..(m.shape[1] - 1)}
Keys(m) == ElemKeys(m) \cup RowKeys(m)
\* the positions a key selects
Selected(m, key) ==
  IF Len(key) = 2 THEN {key} ELSE {p \in Positions(m.shape) : p[1] = key[1]}

\* m[key]: a numpy scalar for an element key, a 1 x cols matrix for a row key
MatGetItem(m, key) ==
  IF Len(key) = 2 THEN Scalar(m.dtype, Elem(m, key)) ELSE Mat(GetRow(m, key[1]))

\* m[key] = x: x is cast to m's dtype and stored at every selected position;
\* a zero is either stored explicitly (keep) or leaves the position unstored
MatSetItem(m, key, x, keep) ==
  LET sel == Selected(m, key)
      v == NpCast(m.dtype, x)
      dom == IF v = 0 /\ ~keep THEN DOMAIN m.data \ sel ELSE DOMAIN m.data \cup sel
  IN  [m EXCEPT !.data = [p \in dom |-> IF p \in sel THEN v ELSE m.data[p]]]

\* m.sum(axis): the scalar total, the 1 x cols column sums (axis 0 or -2),
\* or the rows x 1 row sums (axis 1 or -1)
MatSum(m, axis) ==
  IF axis = <<>> THEN Scalar("int", SetSum(m.data, DOMAIN m.data))
  ELSE IF axis[1] \in {0, -2}
  THEN Arr("int", <<1, m.shape[2]>>,
           [p \in Positions(<<1, m.shape[2]>>) |->
              SetSum(m.data, {q \in DOMAIN m.data : q[2] = p[2]})])
  ELSE Arr("int", <<m.shape[1], 1>>,
           [p \in Positions(<<m.shape[1], 1>>) |->
              SetSum(m.data, {q \in DOMAIN m.data : q[1] = p[1]})])

\* a + b on two matrices of one shape
MatAdd(a, b) ==
  [a EXCEPT !.dtype = "int8",
            !.data = [p \in DOMAIN a.data \cup DOMAIN b.data |-> Int8(Elem(a, p) + Elem(b, p))]]

\* self[other] with a mostly_true_matrix as the key: unsupported indexing
GetItemByWrapper(m, other) == Raise("IndexError")

(* --------------------- data.py: dtype, astype, copy -------------------- *)

\* _data_matrix._set_dtype: data.dtype = newtype reinterprets the stored bytes;
\* bool and int8 are both one byte wide and 0/1 are the same bytes in both
set_dtype(m, t) == [m EXCEPT !.dtype = t]

\* _data_matrix.astype
astype(m, t) == WithData(m, t, [p \in DOMAIN m.data |-> NpCast(t, m.data[p])])

\* _data_matrix.copy: a new matrix object with the same contents
copy(m) == WithData(m, m.dtype, [p \in DOMAIN m.data |-> m.data[p]])

(* ------------------ mtm.py: construction and inversion ---------------- *)

\* mostly_true_matrix.__init__ without the copy: a boolean argument is always
\* held as it is
mtm_init_nocopy(negative, cp) ==
  IF negative.dtype # "bool" THEN [negative |-> astype(negative, "bool"), same |-> FALSE]
  ELSE [negative |-> negative, same |-> TRUE]

\* mostly_true_matrix.__init__: the complement the wrapper holds, and whether
\* it is the very object passed in (same) or a new one
mtm_init(negative, cp) ==
  IF negative.dtype # "bool" THEN [negative |-> astype(negative, "bool"), same |-> FALSE]
  ELSE IF cp THEN [negative |-> copy(negative), same |-> FALSE]
  ELSE [negative |-> negative, same |-> TRUE]

\* mostly_true_matrix.__invert__ returning the complement with its stored data
\* inverted instead of the complement
mtm_invert_data(negative) ==
  [m |-> WithData(negative, negative.dtype,
                  [p \in DOMAIN negative.data |-> NpInvert(negative.dtype, negative.data[p])]),
   same |-> FALSE]

\* mostly_true_matrix.__invert__: the matrix returned, and whether it is the
\* wrapper's own complement object (same) or a new one
mtm_invert(negative) == [m |-> copy(negative), same |-> FALSE]

(* ------------- data.py: inversion, comparison, bitwise, minmax -------- *)

\* _data_matrix.__invert__
data_invert(m) ==
  IF m.dtype = "bool" THEN Mtm(mtm_init(m, TRUE))
  ELSE Mat(WithData(m, m.dtype, [p \in DOMAIN m.data |-> NpInvert(m.dtype, m.data[p])]))

\* _data_matrix._relative wrapping the compared data without inverting them
relative_noinvert(m, other, op) ==
  LET data == [p \in DOMAIN m.data |-> B2I(OpApply(op, m.data[p], other))]
  IN  IF OpApply(op, 0, other)
      THEN Mtm(mtm_init(WithData(m, "bool", data), TRUE))
      ELSE Mat(WithData(m, "bool", data))

\* _data_matrix._relative
relative(m, other, op) ==
  LET data == [p \in DOMAIN m.data |-> B2I(OpApply(op, m.data[p], other))]
  IN  IF OpApply(op, 0, other)
      THEN Mtm(mtm_init(WithData(m, "bool", [p \in DOMAIN data |-> NpInvert("bool", data[p])]),
                        TRUE))
      ELSE Mat(WithData(m, "bool", data))

\* self.astype(bool).astype(int) + other.astype(bool)
BoolSum(m, other) == MatAdd(astype(astype(m, "bool"), "int8"), astype(other, "bool"))

\* _data_matrix.__and__ letting the IndexError of self[other] through
data_and_uncaught(m, other) ==
  IF other.kind = "mtm" THEN GetItemByWrapper(m, other)
  ELSE relative(BoolSum(m, other.m), 2, "eq")

\* _data_matrix.__and__
data_and(m, other) ==
  IF other.kind = "mtm"
  THEN LET r == GetItemByWrapper(m, other)
       IN  IF r.kind = "raise" /\ r.exc = "IndexError" THEN Raise("NotImplementedError") ELSE r
  ELSE relative(BoolSum(m, other.m), 2, "eq")

\* _data_matrix.__or__
data_or(m, other) ==
  IF other.kind = "mtm" THEN Raise("NotImplementedError")
  ELSE relative(BoolSum(m, other.m), 0, "gt")

\* _data_matrix.__xor__
data_xor(m, other) ==
  IF other.kind = "mtm" THEN Raise("NotImplementedError")
  ELSE relative(BoolSum(m, other.m), 1, "eq")

\* _minmax_mixin.max over the stored entries alone
data_max_stored(m) ==
  IF nnz(m) = 0 THEN Scalar(m.dtype, 0)
  ELSE Scalar(m.dtype, SetMax({m.data[p] : p \in DOMAIN m.data}))

\* _minmax_mixin.max
data_max(m) ==
  LET zero == 0
      mx == SetMax({m.data[p] : p \in DOMAIN m.data})
  IN  IF nnz(m) = 0 THEN Scalar(m.dtype, zero)
      ELSE IF nnz(m) # Prod(m.shape) THEN Scalar(m.dtype, SetMax({zero, mx}))
      ELSE Scalar(m.dtype, mx)

\* _minmax_mixin.min
data_min(m) ==
  LET zero == 0
      mn == SetMin({m.data[p] : p \in DOMAIN m.data})
  IN  IF nnz(m) = 0 THEN Scalar(m.dtype, zero)
      ELSE IF nnz(m) # Prod(m.shape) THEN Scalar(m.dtype, SetMin({zero, mn}))
      ELSE Scalar(m.dtype, mn)

(* ---------------------- mtm.py: the delegated methods ----------------- *)

\* Python's ~ on what a delegate returned: a numpy scalar, a numpy array, a
\* sparse matrix (_data_matrix.__invert__)
PyInvert(v) ==
  CASE v.kind = "scalar" -> Scalar(v.dtype, NpInvert(v.dtype, v.v))
    [] v.kind = "array" ->
         Arr(v.dtype, v.shape, [p \in DOMAIN v.data |-> NpInvert(v.dtype, v.data[p])])
    [] v.kind = "matrix" -> data_invert(v.m)

\* _delegate_inverted: ~delegate(*args)
delegate_inverted(v) == PyInvert(v)

\* _delegate_mtm_nocopy: mostly_true_matrix(delegate(*args), copy=False)
delegate_mtm_nocopy(m) == Mtm(mtm_init(m, FALSE))

\* _delegate.__set__ for dtype: setattr(obj.negative, 'dtype', value)
delegate_set_dtype(negative, t) == set_dtype(negative, t)

\* mostly_true_matrix.__getitem__, toarray, diagonal
mtm_getitem(negative, key) == delegate_inverted(MatGetItem(negative, key))
mtm_toarray(negative) == delegate_inverted(ToArray(negative))
mtm_diagonal(negative) == delegate_inverted(Diagonal(negative))

\* mostly_true_matrix.__setitem__: delegate(key, np.invert(val)), val a bool
mtm_setitem(negative, key, val, keep) ==
  MatSetItem(negative, key, NpInvert("bool", val), keep)

\* n - res for the scalar or array res
RSub(n, r) ==
  IF r.kind = "scalar" THEN Scalar(r.dtype, n - r.v)
  ELSE Arr(r.dtype, r.shape, [p \in DOMAIN r.data |-> n - r.data[p]])

\* mostly_true_matrix.sum
mtm_sum(negative, axis) ==
  LET r == MatSum(negative, axis)
  IN  IF axis = <<>> THEN RSub(Prod(negative.shape), r)
      ELSE IF axis[1] = 0 THEN RSub(negative.shape[1], r)
      ELSE RSub(negative.shape[2], r)

\* mostly_true_matrix.__iter__: the wrapper yielded for row i
mtm_iter(negative, i) == Mtm(mtm_init(MatGetItem(negative, <<i>>).m, TRUE))

(* ----------------- operations on a data matrix (SpecData) ------------- *)

A == heap["s"]

\* an operation starts once the caller has dropped the previous result
Idle == res = NoRes

\* the caller drops the result of the last operation
Drop ==
  /\ res # NoRes
  /\ res' = NoRes
  /\ UNCHANGED <<heap, W, T, writes>>

InitData ==
  /\ \E m \in Inputs : heap = [c \in Cells |-> IF c = "s" THEN m ELSE NoMatrix]
  /\ W = "none"
  /\ T = "none"
  /\ res = NoRes
  /\ writes = 0

\* ~A
Invert ==
  /\ Idle
  /\ res' = Res("invert", "", <<>>, data_invert(A))
  /\ UNCHANGED <<heap, W, T, writes>>

\* ~(~A), when ~A gave a wrapper
InvertBack ==
  /\ res.op = "invert" /\ res.val.kind = "mtm"
  /\ res' = Res("invert2", "", <<>>, Mat(mtm_invert(res.val.negative).m))
  /\ UNCHANGED <<heap, W, T, writes>>

\* A < c, A <= c, A == c, A != c, A > c, A >= c
Compare ==
  /\ Idle
  /\ \E op \in CmpOps, c \in Scalars : res' = Res("compare", op, <<c>>, relative(A, c, op))
  /\ UNCHANGED <<heap, W, T, writes>>

Max ==
  /\ Idle
  /\ res' = Res("max", "", <<>>, data_max(A))
  /\ UNCHANGED <<heap, W, T, writes>>

Min ==
  /\ Idle
  /\ res' = Res("min", "", <<>>, data_min(A))
  /\ UNCHANGED <<heap, W, T, writes>>

\* the wrapper made of A takes the cell "w" unless it holds A itself
Adopt(r) ==
  /\ W' = IF r.same THEN "s" ELSE "w"
  /\ heap' = IF r.same THEN heap ELSE [heap EXCEPT !["w"] = r.negative]

\* W = mostly_true_matrix(A)
Wrap ==
  /\ Idle
  /\ W = "none"
  /\ Adopt(mtm_init(A, TRUE))
  /\ res' = Res("wrap", "", <<>>, NoVal)
  /\ UNCHANGED <<T, writes>>

\* the right operand of a bitwise operation: the wrapper W, or A itself
Operands == IF W = "none" THEN {Mat(A)} ELSE {Mat(A), Mtm([negative |-> heap[W], same |-> TRUE])}

\* A & other
And ==
  /\ Idle
  /\ \E o \in Operands : res' = Res("and", o.kind, <<>>, data_and(A, o))
  /\ UNCHANGED <<heap, W, T, writes>>

\* A | other
Or ==
  /\ Idle
  /\ \E o \in Operands : res' = Res("or", o.kind, <<>>, data_or(A, o))
  /\ UNCHANGED <<heap, W, T, writes>>

\* A ^ other
Xor ==
  /\ Idle
  /\ \E o \in Operands : res' = Res("xor", o.kind, <<>>, data_xor(A, o))
  /\ UNCHANGED <<heap, W, T, writes>>

NextData ==
  \/ Invert \/ InvertBack \/ Compare \/ Max \/ Min \/ Wrap \/ And \/ Or \/ Xor
  \/ Drop

SpecData == InitData /\ [][NextData]_vars

(* ------------------- operations on a wrapper (Spec) ------------------- *)

neg == heap[W]

\* the state after W = mostly_true_matrix(m, copy); the caller keeps no other
\* reference to a matrix the wrapper does not hold
Init ==
  /\ \E m \in Inputs, cp \in BOOLEAN :
       LET r == mtm_init(m, cp)
       IN  /\ W = IF r.same THEN "s" ELSE "w"
           /\ heap = [c \in Cells |-> IF c = W THEN r.negative ELSE NoMatrix]
  /\ T = "none"
  /\ res = NoRes
  /\ writes = 0

\* W[key]
GetItem ==
  /\ Idle
  /\ \E key \in Keys(neg) : res' = Res("getitem", "", key, mtm_getitem(neg, key))
  /\ UNCHANGED <<heap, W, T, writes>>

\* W.toarray()
ToArrayW ==
  /\ Idle
  /\ res' = Res("toarray", "", <<>>, mtm_toarray(neg))
  /\ UNCHANGED <<heap, W, T, writes>>

\* W.diagonal()
DiagonalW ==
  /\ Idle
  /\ res' = Res("diagonal", "", <<>>, mtm_diagonal(neg))
  /\ UNCHANGED <<heap, W, T, writes>>

\* W[key] = v
SetItem ==
  /\ Idle
  /\ \E key \in Keys(neg), v \in BoolVals, keep \in BOOLEAN :
       LET n == mtm_setitem(neg, key, v, keep)
       IN  /\ nnz(n) <= MaxNnz
           /\ heap' = [heap EXCEPT ![W] = n]
           /\ res' = Res("setitem", "", key, Scalar("bool", v))
  /\ UNCHANGED <<W, T, writes>>

\* W.dtype = t
SetDtype ==
  /\ Idle
  /\ \E t \in DTypes :
       /\ heap' = [heap EXCEPT ![W] = delegate_set_dtype(neg, t)]
       /\ res' = Res("setdtype", t, <<>>, NoVal)
  /\ UNCHANGED <<W, T, writes>>

\* W.sum(axis)
Sum ==
  /\ Idle
  /\ \E axis \in Axes : res' = Res("sum", "", axis, mtm_sum(neg, axis))
  /\ UNCHANGED <<heap, W, T, writes>>

\* W.asformat(f), W.tocoo(), W.tocsc(), W.tocsr(), ...
ConvertW ==
  /\ Idle
  /\ \E f \in Formats : res' = Res("convert", f, <<>>, delegate_mtm_nocopy(Convert(neg, f)))
  /\ UNCHANGED <<heap, W, T, writes>>

\* W.copy()
CopyW ==
  /\ Idle
  /\ res' = Res("copy", "", <<>>, delegate_mtm_nocopy(copy(neg)))
  /\ UNCHANGED <<heap, W, T, writes>>

\* W.transpose(), W.T
TransposeW ==
  /\ Idle
  /\ res' = Res("transpose", "", <<>>, delegate_mtm_nocopy(Transpose(neg)))
  /\ UNCHANGED <<heap, W, T, writes>>

\* W.getrow(i)
GetRowW ==
  /\ Idle
  /\ \E i \in 0..(neg.shape[1] - 1) :
       res' = Res("getrow", "", <<i>>, delegate_mtm_nocopy(GetRow(neg, i)))
  /\ UNCHANGED <<heap, W, T, writes>>

\* W.getcol(j)
GetColW ==
  /\ Idle
  /\ \E j \in 0..(neg.shape[2] - 1) :
       res' = Res("getcol", "", <<j>>, delegate_mtm_nocopy(GetCol(neg, j)))
  /\ UNCHANGED <<heap, W, T, writes>>

\* iter(W): the wrapper yielded for row i
IterW ==
  /\ Idle
  /\ \E i \in 0..(neg.shape[1] - 1) : res' = Res("iter", "", <<i>>, mtm_iter(neg, i))
  /\ UNCHANGED <<heap, W, T, writes>>

\* ~W
InvertW ==
  /\ Idle
  /\ res' = Res("invertw", "", <<>>, Mat(mtm_invert(neg).m))
  /\ UNCHANGED <<heap, W, T, writes>>

Next ==
  \/ GetItem \/ ToArrayW \/ DiagonalW \/ SetItem \/ SetDtype \/ Sum
  \/ ConvertW \/ CopyW \/ TransposeW \/ GetRowW \/ GetColW \/ IterW \/ InvertW
  \/ Drop

Spec == Init /\ [][Next]_vars

(* ------------- two objects and item assignment (SpecAlias) ------------ *)

\* W = ~A, for a boolean A
WrapInvert ==
  /\ Idle
  /\ W = "none"
  /\ data_invert(A).kind = "mtm"
  /\ Adopt(data_invert(A))
  /\ res' = Res("wrapinvert", "", <<>>, NoVal)
  /\ UNCHANGED <<T, writes>>

\* T = ~W: the matrix returned takes the cell "t" unless it is W's complement itself
InvertWT ==
  /\ Idle
  /\ W # "none" /\ T = "none"
  /\ LET r == mtm_invert(neg)
     IN  /\ T' = IF r.same THEN W ELSE "t"
         /\ heap' = IF r.same THEN heap ELSE [heap EXCEPT !["t"] = r.m]
  /\ res' = Res("invertwt", "", <<>>, NoVal)
  /\ UNCHANGED <<W, writes>>

\* A[key] = x or T[key] = x, on the matrix in cell c
SetItemMatrix(c, who) ==
  /\ \E key \in Keys(heap[c]), x \in ValsOf(heap[c].dtype), keep \in BOOLEAN :
       LET n == MatSetItem(heap[c], key, x, keep)
       IN  /\ nnz(n) <= MaxNnz
           /\ heap' = [heap EXCEPT ![c] = n]
           /\ res' = Res("setitem", who, key, Scalar(heap[c].dtype, x))
  /\ writes' = writes + 1
  /\ UNCHANGED <<W, T>>

\* A[key] = x
SetItemS ==
  /\ Idle
  /\ writes < MaxWrites
  /\ SetItemMatrix("s", "S")

\* T[key] = x
SetItemT ==
  /\ Idle
  /\ writes < MaxWrites
  /\ T # "none"
  /\ SetItemMatrix(T, "T")

\* W[key] = v
SetItemW ==
  /\ Idle
  /\ writes < MaxWrites
  /\ W # "none"
  /\ \E key \in Keys(neg), v \in BoolVals, keep \in BOOLEAN :
       LET n == mtm_setitem(neg, key, v, keep)
       IN  /\ nnz(n) <= MaxNnz
           /\ heap' = [heap EXCEPT ![W] = n]
           /\ res' = Res("setitem", "W", key, Scalar("bool", v))
  /\ writes' = writes + 1
  /\ UNCHANGED <<W, T>>

NextAlias == Wrap \/ WrapInvert \/ InvertWT \/ SetItemS \/ SetItemT \/ SetItemW \/ Drop

\* the caller starts from a CSR matrix of at most MaxDim elements, at most one
\* of them stored
InitAlias ==
  /\ InitData
  /\ A.format = "csr"
  /\ Prod(A.shape) <= MaxDim
  /\ nnz(A) <= 1

SpecAlias == InitAlias /\ [][NextAlias]_vars

(* ------------------------------ claims -------------------------------- *)

\* what the wrapper with the given complement reads at element position p
Read(negative, p) == mtm_getitem(negative, p)

\* the element at p of the matrix a returned value denotes: a wrapper is read
\* through __getitem__, a matrix through its elements, an array by index
ValueAt(v, p) ==
  CASE v.kind = "mtm" -> Read(v.negative, p).v
    [] v.kind = "matrix" -> Elem(v.m, p)
    [] v.kind = "array" -> v.data[p]

\* logical negation of a complement element: True where False or nothing is stored
Not(x) == B2I(x = 0)

Reads == {"getitem", "toarray", "diagonal"}

\* C1: in every state the complement held by the wrapper, and by every wrapper
\* an operation returned, has dtype bool.
C1_NegativeIsBool ==
  /\ neg.dtype = "bool"
  /\ res.val.kind = "mtm" => res.val.negative.dtype = "bool"

\* every wrapper an operation returns holds a complement of dtype bool, whatever
\* the dtype of W's own complement
ReturnedWrapperIsBool == res.val.kind = "mtm" => res.val.negative.dtype = "bool"

\* what C2 states of the value v a read of the complement n returned
ReadNegates(n, op, key, v) ==
  CASE op = "getitem" /\ Len(key) = 2 -> v = Scalar("bool", Not(Elem(n, key)))
    [] op = "getitem" /\ Len(key) = 1 ->
         \A p \in Positions(<<1, n.shape[2]>>) :
            ValueAt(v, p) = Not(Elem(n, <<key[1], p[2]>>))
    [] op = "toarray" ->
         \A p \in Positions(n.shape) : ValueAt(v, p) = Not(Elem(n, p))
    [] op = "diagonal" ->
         \A p \in DOMAIN v.data : ValueAt(v, p) = Not(Elem(n, <<p[2], p[2]>>))

\* C2: W[key], W.toarray() and W.diagonal() return the logical negation of what
\* the complement holds there, and leave the complement unchanged.
C2_ReadIsNegation ==
  [][res'.op \in Reads =>
       /\ ReadNegates(neg, res'.op, res'.arg, res'.val)
       /\ heap' = heap]_vars

\* C2 restricted to the states in which the complement's dtype is bool
ReadIsNegationWhileBool ==
  [][res'.op \in Reads /\ neg.dtype = "bool" =>
       /\ ReadNegates(neg, res'.op, res'.arg, res'.val)
       /\ heap' = heap]_vars

\* what C3 states of the write W[key] = v taking the complement from n to n2
WriteStoresInverse(n, n2, key, v) ==
  /\ \A p \in Selected(n, key) : Elem(n2, p) = Not(v)
  /\ Len(key) = 2 => Read(n2, key) = Scalar("bool", v)
  /\ \A p \in Positions(n.shape) \ Selected(n, key) : Read(n2, p) = Read(n, p)

\* C3: W[key] = v stores not v in the complement, a following read of an
\* element key returns v, and every position the key does not select reads as
\* before.
C3_WriteThenRead ==
  [][res'.op = "setitem" => WriteStoresInverse(neg, heap'[W], res'.arg, res'.val.v)]_vars

\* C3 restricted to the states in which the complement's dtype is bool
WriteThenReadWhileBool ==
  [][res'.op = "setitem" /\ neg.dtype = "bool" =>
       WriteStoresInverse(neg, heap'[W], res'.arg, res'.val.v)]_vars

\* the number of True entries of the represented matrix among the positions S
CountTrue(n, S) == Cardinality({p \in S : Elem(n, p) = 0})

\* what C4 states of the value v returned by W.sum(axis)
SumCountsTrue(n, axis, v) ==
  IF axis = <<>> THEN v.v = CountTrue(n, Positions(n.shape))
  ELSE IF axis[1] \in {0, -2}
  THEN /\ v.shape = <<1, n.shape[2]>>
       /\ \A p \in DOMAIN v.data :
            v.data[p] = CountTrue(n, {q \in Positions(n.shape) : q[2] = p[2]})
  ELSE /\ v.shape = <<n.shape[1], 1>>
       /\ \A p \in DOMAIN v.data :
            v.data[p] = CountTrue(n, {q \in Positions(n.shape) : q[1] = p[1]})

\* C4: W.sum(axis) is the count of True entries of the represented matrix: of
\* the whole matrix without an axis, of every column for axis 0 and -2, of
\* every row for axis 1 and -1.
C4_SumCountsTrue == res.op = "sum" => SumCountsTrue(neg, res.arg, res.val)

\* C4 for every axis but -2
SumCountsTrueButMinus2 ==
  res.op = "sum" /\ res.arg # <<-2>> => SumCountsTrue(neg, res.arg, res.val)

\* what C5 states of the value v returned by a conversion of the complement n to f
ConvertRewraps(n, f, v) ==
  /\ v.kind = "mtm"
  /\ v.negative = Convert(n, f)
  /\ \A p \in Positions(n.shape) : Read(v.negative, p) = Read(n, p)

\* C5: a format conversion returns a wrapper of the converted complement that
\* reads as W does at every position, and leaves W unchanged.
C5_ConvertRewraps ==
  [][res'.op = "convert" =>
       /\ ConvertRewraps(neg, res'.name, res'.val)
       /\ heap' = heap /\ W' = W]_vars

\* C5 restricted to the states in which the complement's dtype is bool
ConvertRewrapsWhileBool ==
  [][res'.op = "convert" /\ neg.dtype = "bool" =>
       /\ ConvertRewraps(neg, res'.name, res'.val)
       /\ heap' = heap /\ W' = W]_vars

C7_CompareDenotesElementwise ==
  [][res'.op = "compare" =>
       LET c == res'.arg[1]
           v == res'.val
       IN  /\ \A p \in Positions(A.shape) :
                ValueAt(v, p) = B2I(OpApply(res'.name, Elem(A, p), c))
           /\ (v.kind = "mtm") <=> OpApply(res'.name, 0, c)
           /\ v.kind # "mtm" => v.kind = "matrix" /\ DOMAIN v.m.data = DOMAIN A.data
           /\ heap' = heap]_vars

C7_Witness ==
  /\ res.op = "compare" /\ res.val.kind = "mtm"
  /\ nnz(A) > 0 /\ nnz(A) < Prod(A.shape)
  /\ \E p \in DOMAIN A.data : ValueAt(res.val, p) = 0

\* every element of a matrix, positions without a stored entry counting as zero
Elements(m) == {Elem(m, p) : p \in Positions(m.shape)}

\* C8: max() and min() are the maximum and the minimum over all rows*cols
\* elements, zero counting for every position without a stored entry.
C8_MinMaxOverAllElements ==
  /\ res.op = "max" => res.val.v = SetMax(Elements(A))
  /\ res.op = "min" => res.val.v = SetMin(Elements(A))

C8_Witness ==
  /\ res.op = "max" /\ res.val.v = 0
  /\ nnz(A) > 0 /\ nnz(A) < Prod(A.shape)
  /\ \A p \in DOMAIN A.data : A.data[p] < 0

\* C9: for a boolean S, ~S is a wrapper reading not S[i,j] everywhere and ~(~S)
\* is an ordinary matrix equal to S everywhere; for a non-boolean S, ~S is a
\* matrix with S's pattern whose stored data are inverted bitwise.
C9_InvertRoundTrip ==
  /\ res.op = "invert" /\ A.dtype = "bool" =>
       /\ res.val.kind = "mtm"
       /\ \A p \in Positions(A.shape) : Read(res.val.negative, p) = Scalar("bool", Not(Elem(A, p)))
  /\ res.op = "invert2" =>
       /\ res.val.kind = "matrix"
       /\ res.val.m.dtype = "bool"
       /\ \A p \in Positions(A.shape) : Elem(res.val.m, p) = Elem(A, p)
  /\ res.op = "invert" /\ A.dtype # "bool" =>
       /\ res.val.kind = "matrix"
       /\ DOMAIN res.val.m.data = DOMAIN A.data
       /\ \A p \in DOMAIN A.data : res.val.m.data[p] = -A.data[p] - 1

C9_Witness ==
  /\ res.op = "invert2"
  /\ nnz(A) > 0 /\ nnz(A) < Prod(A.shape)
  /\ \E p \in DOMAIN A.data : A.data[p] = 1

\* every element read of the matrix n2 returns what it returned of n
SameElements(n, n2) == \A p \in Positions(n.shape) : Elem(n2, p) = Elem(n, p)
\* every read of the wrapper with complement n2 returns what it returned with n
SameReads(n, n2) == \A p \in Positions(n.shape) : Read(n2, p) = Read(n, p)

\* C10: an item assignment through W changes no read of the matrix S it was
\* built from (by ~S or mostly_true_matrix(S)) nor of the matrix T = ~W, and an
\* item assignment through S or through T changes no read of W.
C10_NoSharedStorage ==
  [][res'.op = "setitem" =>
       /\ res'.name = "W" =>
            /\ SameElements(heap["s"], heap'["s"])
            /\ T # "none" => SameElements(heap[T], heap'[T])
       /\ res'.name \in {"S", "T"} /\ W # "none" => SameReads(heap[W], heap'[W])]_vars

C10_Witness ==
  /\ res.op = "setitem" /\ res.name = "W"
  /\ T # "none"
  /\ \E p \in Positions(A.shape) : Elem(heap[W], p) # Elem(heap[T], p)

====
